---- MODULE Spec2Model ----
(***************************************************************************)
(* A model of zeno::FileImpl (src/src/zenolib/fileimpl.cpp): the header    *)
(* and index-pointer loader (the constructor), the directory-entry reader  *)
(* (readDirentNolock / readDataNolock), the lookup engine (findArticle,    *)
(* getNamespaceBeginOffset, getNamespaceEndOffset, getNamespaces) and the  *)
(* mutex that guards the shared file handle.                               *)
(*                                                                         *)
(* Every method is a procedure on a per-thread call stack; one step of a   *)
(* thread performs at most one access to shared state (the mutex, the file *)
(* cursor, the namespace cache), together with the local computation that  *)
(* follows it.  Indices (l, u, p, idx, ...) are 0-based as in the code;    *)
(* TLA+ sequences are 1-based, hence At(s, i) == s[i + 1].                 *)
(***************************************************************************)
EXTENDS Integers, Sequences, FiniteSets, TLC

(***************************************************************************)
(* Bounds of the model.                                                    *)
(***************************************************************************)
MaxLen == 3         \* directory entries of an archive: 0..MaxLen
MaxNs == 2          \* namespace characters are 1..MaxNs
MaxTitle == 2       \* titles are the codes 0..MaxTitle (0 is the empty title)
MaxCalls == 2       \* public calls of a thread that runs alone
MaxShared == 2      \* directory entries of an archive threads share
MaxCount == 2       \* article count of a header given to the constructor
MaxWords == 3       \* pointer words the store holds at the pointer position

(***************************************************************************)
(* Program constants.                                                      *)
(***************************************************************************)
headerSize == 60
DirentHeaderSize == 26
BufferSize == 256
Magic == 1439867043
Version == 3
WordSize == 4

Namespaces == 1..MaxNs
Titles == 0..MaxTitle
Threads == {1, 2}

At(s, i) == s[i + 1]
Min(a, b) == IF a < b THEN a ELSE b
Sign(x) == IF x < 0 THEN -1 ELSE IF x > 0 THEN 1 ELSE 0

(***************************************************************************)
(* Titles.  A title is a code; its bytes are TitleLen(t) long and the      *)
(* byte-exact order of two titles is the order of their codes.  The        *)
(* collated comparison is the external ordering service: it ranks titles   *)
(* by a collation value under which neighbouring codes tie.                *)
(***************************************************************************)
TitleLen(t) == t
compare(a, b) == Sign(a - b)
CollateValue(t) == (t + 1) \div 2
compareCollate(a, b) == Sign(CollateValue(a) - CollateValue(b))

(***************************************************************************)
(* The byte store of an archive whose directory holds the entries dir_     *)
(* (records [ns, title]): the 60-byte header, the index-pointer table      *)
(* (one 4-byte pointer per entry), then the directory entries, each a      *)
(* 26-byte header followed by its extra blob (the title bytes).            *)
(***************************************************************************)
EntrySize(e) == DirentHeaderSize + TitleLen(e.title)

RECURSIVE RelOffset(_, _)
RelOffset(dir_, i) ==
  IF i = 0 THEN 0 ELSE RelOffset(dir_, i - 1) + EntrySize(dir_[i])

IndexPtrPosOf(dir_) == headerSize
IndexPosOf(dir_) == headerSize + WordSize * Len(dir_)
PointersOf(dir_) == [i \in 1..Len(dir_) |-> RelOffset(dir_, i - 1)]
FileLenOf(dir_) == IndexPosOf(dir_) + RelOffset(dir_, Len(dir_))

HeaderOf(dir_) ==
  [hasHeader |-> TRUE, magic |-> Magic, version |-> Version,
   count |-> Len(dir_), indexPos |-> IndexPosOf(dir_),
   indexPtrPos |-> IndexPtrPosOf(dir_),
   indexPtrLen |-> WordSize * Len(dir_),
   words |-> PointersOf(dir_)]

(***************************************************************************)
(* Archives: directories strictly sorted by (namespace, title) in the      *)
(* byte-exact order, of 0..MaxLen entries.                                 *)
(***************************************************************************)
KeyLess(a, b) == a.ns < b.ns \/ (a.ns = b.ns /\ a.title < b.title)
Entries == [ns : Namespaces, title : Titles]
SortedDirs ==
  UNION {{d \in [1..n -> Entries] :
            \A i \in 1..(n - 1) : KeyLess(d[i], d[i + 1])} : n \in 0..MaxLen}

(***************************************************************************)
(* State.                                                                  *)
(*   hdr          the byte store's header fields and the pointer words it  *)
(*                holds at the index-pointer position                      *)
(*   dir          the directory entries the byte store holds               *)
(*   missing      the number of bytes the byte store lacks at its end      *)
(*   openStatus   "closed", or how the constructor ended                   *)
(*   indexOffsets FileImpl::indexOffsets                                   *)
(*   pos, failed  zenoFile: the get position and the stream's failbit      *)
(*   mutex        FileImpl::mutex: 0 when free, else the holding thread    *)
(*   namespaces   FileImpl::namespaces, the lazily filled cache            *)
(*   stack        each thread's call stack of frames                       *)
(*   ret          each thread's last returned value (or thrown error)      *)
(*   status       "idle", "running", "returned" or "raised"                *)
(*   cur, calls   each thread's current public call and number of calls    *)
(*   quota        the number of public calls each thread may make          *)
(***************************************************************************)
VARIABLES hdr, dir, missing, openStatus, indexOffsets, pos, failed, mutex,
          namespaces, stack, ret, status, cur, calls, quota

vars == <<hdr, dir, missing, openStatus, indexOffsets, pos, failed, mutex,
          namespaces, stack, ret, status, cur, calls, quota>>
store == <<hdr, dir, missing, openStatus, indexOffsets, quota>>

NoRet == [kind |-> "none"]
NoCall == [op |-> "none", ns |-> 0, title |-> 0, collate |-> FALSE,
           idx |-> 0, off |-> 0, count |-> 0]

(***************************************************************************)
(* FileImpl::FileImpl.  The outcomes of the constructor on a byte store    *)
(* with header h: a format error, or an object whose indexOffsets holds    *)
(* one offset per element of buffer.  read() delivers at most the words    *)
(* the store holds; when it delivers more words than buffer has elements   *)
(* it writes past the end of buffer, which is undefined: the constructor   *)
(* then either goes on or the process dies ("crash").  A short read sets   *)
(* the stream's failbit, which nothing clears.                             *)
(***************************************************************************)
FormatError(what) ==
  [status |-> "FormatError", what |-> what, indexOffsets |-> <<>>,
   pos |-> 0, failed |-> TRUE]

\* As BufferLen, were buffer sized by the pointer-table length.
BufferLenFromTableLength(h) == h.indexPtrLen \div WordSize
BufferLen(h) == h.count
WordsRead(h) == Min(h.indexPtrLen \div WordSize, Len(h.words))

\* As Offsets, were the offsets sorted.
OffsetsSorted(h, buffer) ==
  SortSeq([i \in 1..Len(buffer) |-> h.indexPos + buffer[i]],
          LAMBDA a, b : a < b)
\* The loop of lines 77-79: rIndexPos + the pointer, for each element of
\* buffer in turn.
Offsets(h, buffer) == [i \in 1..Len(buffer) |-> h.indexPos + buffer[i]]

FileImpl(h) ==
  IF ~h.hasHeader THEN {FormatError("header too short")}
  ELSE IF h.magic # Magic THEN {FormatError("invalid magic number")}
  ELSE IF h.version # Version THEN {FormatError("invalid zenofile version")}
  ELSE
    LET n == BufferLen(h)
        got == WordsRead(h)
        buffer == [i \in 1..n |-> IF i <= got THEN h.words[i] ELSE 0]
        short == got * WordSize < h.indexPtrLen
        done == [status |-> "ok", what |-> "",
                 indexOffsets |-> Offsets(h, buffer),
                 pos |-> h.indexPtrPos + got * WordSize,
                 failed |-> short]
        crash == [status |-> "crash", what |-> "buffer overrun",
                  indexOffsets |-> <<>>, pos |-> 0, failed |-> TRUE]
    IN IF got > n
         THEN (IF n = 0 THEN {crash} ELSE {done, crash})
         ELSE {done}

(***************************************************************************)
(* The byte stores handed to the constructor.                              *)
(***************************************************************************)
WordSeqs == UNION {[1..n -> {0, DirentHeaderSize}] : n \in 0..MaxWords}
Headers ==
  [hasHeader : BOOLEAN, magic : {Magic, Magic + 1},
   version : {Version - 1, Version, Version + 1},
   count : 0..MaxCount, indexPos : {headerSize + WordSize * MaxCount},
   indexPtrPos : {headerSize},
   indexPtrLen : {WordSize * k : k \in 0..MaxWords},
   words : WordSeqs]

getCountArticles == Len(indexOffsets)
FileLen == FileLenOf(dir) - missing
\* As ShortRead, were the stream not tested after the read.
ShortReadUntested(n) == FALSE
\* istream::read of n bytes at the cursor sets the failbit: the stream has
\* failed before, or the store ends before n bytes have been read.
ShortRead(n) == failed \/ pos + n > FileLen

(***************************************************************************)
(* What the byte store holds.  A 26-byte read at the offset of entry i     *)
(* decodes to that entry's header; the extra blob read right behind it is  *)
(* its title.  Bytes read anywhere else are not an entry: they decode to a *)
(* header with namespace 0 and some extra length, and to no title.         *)
(***************************************************************************)
OffsetOf(i) == hdr.indexPos + RelOffset(dir, i - 1)
GarbageTitle == MaxTitle + 1

HeadersAt(p) ==
  IF \E i \in 1..Len(dir) : OffsetOf(i) = p
    THEN {[ns |-> dir[i].ns, extraLen |-> TitleLen(dir[i].title)] :
            i \in {j \in 1..Len(dir) : OffsetOf(j) = p}}
    ELSE {[ns |-> 0, extraLen |-> e] : e \in 0..1}

TitleAt(p, n) ==
  IF \E i \in 1..Len(dir) :
       OffsetOf(i) + DirentHeaderSize = p /\ TitleLen(dir[i].title) = n
    THEN dir[CHOOSE i \in 1..Len(dir) :
               OffsetOf(i) + DirentHeaderSize = p
                 /\ TitleLen(dir[i].title) = n].title
    ELSE GarbageTitle

(***************************************************************************)
(* Call stacks.                                                            *)
(***************************************************************************)
Top(t) == stack[t][Len(stack[t])]
Running(t, proc, pc) ==
  /\ stack[t] # <<>>
  /\ Top(t).proc = proc
  /\ Top(t).pc = pc

\* The top frame becomes f.
Goto(t, f) ==
  /\ stack' = [stack EXCEPT ![t] = [@ EXCEPT ![Len(@)] = f]]
  /\ UNCHANGED <<ret, status>>

\* The top frame becomes f and calls the frames fs.
Invoke(t, f, fs) ==
  /\ stack' = [stack EXCEPT ![t] = [@ EXCEPT ![Len(@)] = f] \o fs]
  /\ UNCHANGED <<ret, status>>

\* The top frame returns v to its caller.
Return(t, v) ==
  /\ stack' = [stack EXCEPT ![t] = SubSeq(@, 1, Len(@) - 1)]
  /\ ret' = [ret EXCEPT ![t] = v]
  /\ status' = [status EXCEPT
                  ![t] = IF Len(stack[t]) = 1 THEN "returned" ELSE @]

\* ZenoFileFormatError is thrown: nothing in the file catches it, so the
\* whole stack unwinds; a MutexLock on it unlocks in its destructor.
Throw(t, what) ==
  /\ stack' = [stack EXCEPT ![t] = <<>>]
  /\ ret' = [ret EXCEPT ![t] = [kind |-> "error", what |-> what]]
  /\ status' = [status EXCEPT ![t] = "raised"]
Unwound(t) == IF mutex = t THEN 0 ELSE mutex

(***************************************************************************)
(* Frames: what a call pushes, up to its first access to shared state.     *)
(***************************************************************************)
F_readDataNolock(count) ==
  <<[proc |-> "readDataNolock", pc |-> "read", count |-> count,
     from |-> -1, got |-> 0]>>
F_readDataNolockAt(off, count) ==
  <<[proc |-> "readDataNolockAt", pc |-> "seekg", off |-> off,
     count |-> count]>>
F_readDirentNolock(off) ==
  <<[proc |-> "readDirentNolock", pc |-> "seekg", off |-> off,
     ns |-> 0, extraLen |-> 0, hdrFrom |-> -1]>>
F_getDirent(idx) ==
  <<[proc |-> "getDirent", pc |-> "lock", idx |-> idx]>>
F_getArticle(idx) ==
  <<[proc |-> "getArticle", pc |-> "lock", idx |-> idx]>>
F_getNamespaceBeginOffset(ch) ==
  <<[proc |-> "getNamespaceBeginOffset", pc |-> "first", ch |-> ch,
     lower |-> 0, upper |-> getCountArticles, m |-> 0, d0 |-> 0]>>
    \o F_getDirent(0)
F_getNamespaceEndOffset(ch) ==
  <<[proc |-> "getNamespaceEndOffset", pc |-> "loop", ch |-> ch,
     lower |-> 0, upper |-> getCountArticles, m |-> 0]>>
F_getNamespaces ==
  <<[proc |-> "getNamespaces", pc |-> "empty", idx |-> -1]>>
F_findArticle(ns, title, collate) ==
  <<[proc |-> "findArticle", pc |-> "find", ns |-> ns, title |-> title,
     collate |-> collate, l |-> 0, u |-> 0, p |-> 0]>>
    \o F_getNamespaces
F_getArticleByTitle(ns, title, collate) ==
  <<[proc |-> "getArticleByTitle", pc |-> "found", idx |-> 0]>>
    \o F_findArticle(ns, title, collate)
F_readData(off, count) ==
  <<[proc |-> "readData", pc |-> "lock", off |-> off, count |-> count]>>

(***************************************************************************)
(* readDataNolock(count): reads count bytes at the cursor in pieces of at  *)
(* most 256 bytes; a read the store cannot fill throws.  The returned data *)
(* records the cursor position its first byte came from.                   *)
(***************************************************************************)
readDataNolock(t) ==
  /\ Running(t, "readDataNolock", "read")
  /\ LET f == Top(t)
         n == Min(BufferSize, f.count)
         from == IF f.got = 0 THEN pos ELSE f.from
     IN IF f.count = 0
          THEN /\ Return(t, [kind |-> "data", from |-> f.from, len |-> f.got])
               /\ UNCHANGED <<pos, failed, mutex>>
        ELSE IF ShortRead(n)
          THEN /\ failed' = TRUE
               /\ Throw(t, "format-error: error reading data")
               /\ mutex' = Unwound(t)
               /\ UNCHANGED pos
        ELSE /\ pos' = pos + n
             /\ IF f.count = n
                  THEN Return(t, [kind |-> "data", from |-> from,
                                  len |-> f.got + n])
                  ELSE Goto(t, [f EXCEPT !.count = @ - n, !.got = @ + n,
                                         !.from = from])
             /\ UNCHANGED <<failed, mutex>>
  /\ UNCHANGED <<store, namespaces, cur, calls>>

\* readDataNolock(off, count): seekg(off), then readDataNolock(count).
\* seekg does nothing on a stream whose failbit is set.
readDataNolockAt(t) ==
  /\ Running(t, "readDataNolockAt", "seekg")
  /\ pos' = IF failed THEN pos ELSE Top(t).off
  /\ Goto(t, F_readDataNolock(Top(t).count)[1])
  /\ UNCHANGED <<store, failed, mutex, namespaces, cur, calls>>

(***************************************************************************)
(* readDirentNolock(off): seekg(off); read the 26-byte header; read the    *)
(* extra blob when the header's extra length is > 0.  The returned entry   *)
(* records the offset asked for (at) and the cursor positions its header   *)
(* (hdrFrom) and its extra blob (extraFrom) came from.                     *)
(***************************************************************************)
Dirent(f, title, extraFrom) ==
  [kind |-> "dirent", ns |-> f.ns, title |-> title, extraLen |-> f.extraLen,
   at |-> f.off, hdrFrom |-> f.hdrFrom, extraFrom |-> extraFrom]

readDirentNolock_seekg(t) ==
  /\ Running(t, "readDirentNolock", "seekg")
  /\ pos' = IF failed THEN pos ELSE Top(t).off
  /\ Goto(t, [Top(t) EXCEPT !.pc = "header"])
  /\ UNCHANGED <<store, failed, mutex, namespaces, cur, calls>>

readDirentNolock_header(t) ==
  /\ Running(t, "readDirentNolock", "header")
  /\ IF ShortRead(DirentHeaderSize)
       THEN /\ failed' = TRUE
            /\ Throw(t, "format-error: can't read index-header")
            /\ mutex' = Unwound(t)
            /\ UNCHANGED pos
       ELSE \E h \in HeadersAt(pos) :
              LET f == [Top(t) EXCEPT !.ns = h.ns, !.extraLen = h.extraLen,
                                      !.hdrFrom = pos]
              IN /\ pos' = pos + DirentHeaderSize
                 /\ IF h.extraLen > 0
                      THEN Invoke(t, [f EXCEPT !.pc = "setExtra"],
                                  F_readDataNolock(h.extraLen))
                      ELSE Return(t, Dirent(f, 0, -1))
                 /\ UNCHANGED <<failed, mutex>>
  /\ UNCHANGED <<store, namespaces, cur, calls>>

readDirentNolock_setExtra(t) ==
  /\ Running(t, "readDirentNolock", "setExtra")
  /\ Return(t, Dirent(Top(t), TitleAt(ret[t].from, ret[t].len), ret[t].from))
  /\ UNCHANGED <<store, pos, failed, mutex, namespaces, cur, calls>>

(***************************************************************************)
(* getDirent(idx) and getArticle(idx): the range check, then the entry at  *)
(* indexOffsets[idx] is read under the mutex.                              *)
(***************************************************************************)
\* As OutOfRange, were the last index rejected too.
OutOfRangeOffByOne(idx) == idx + 1 >= getCountArticles
OutOfRange(idx) == idx >= getCountArticles

\* As getDirent_lock, were the MutexLock left out.
getDirent_lock_missing(t) ==
  /\ Running(t, "getDirent", "lock")
  /\ IF OutOfRange(Top(t).idx)
       THEN /\ Throw(t, "article index out of range")
            /\ mutex' = Unwound(t)
       ELSE /\ UNCHANGED mutex
            /\ Invoke(t, [Top(t) EXCEPT !.pc = "unlock"],
                      F_readDirentNolock(At(indexOffsets, Top(t).idx)))
  /\ UNCHANGED <<store, pos, failed, namespaces, cur, calls>>

getDirent_lock(t) ==
  /\ Running(t, "getDirent", "lock")
  /\ IF OutOfRange(Top(t).idx)
       THEN /\ Throw(t, "article index out of range")
            /\ mutex' = Unwound(t)
       ELSE /\ mutex = 0
            /\ mutex' = t
            /\ Invoke(t, [Top(t) EXCEPT !.pc = "unlock"],
                      F_readDirentNolock(At(indexOffsets, Top(t).idx)))
  /\ UNCHANGED <<store, pos, failed, namespaces, cur, calls>>

getDirent_unlock(t) ==
  /\ Running(t, "getDirent", "unlock")
  /\ mutex' = 0
  /\ Return(t, ret[t])
  /\ UNCHANGED <<store, pos, failed, namespaces, cur, calls>>

getArticle_lock(t) ==
  /\ Running(t, "getArticle", "lock")
  /\ IF OutOfRange(Top(t).idx)
       THEN /\ Throw(t, "article index out of range")
            /\ mutex' = Unwound(t)
       ELSE /\ mutex = 0
            /\ mutex' = t
            /\ Invoke(t, [Top(t) EXCEPT !.pc = "unlock"],
                      F_readDirentNolock(At(indexOffsets, Top(t).idx)))
  /\ UNCHANGED <<store, pos, failed, namespaces, cur, calls>>

getArticle_unlock(t) ==
  /\ Running(t, "getArticle", "unlock")
  /\ mutex' = 0
  /\ Return(t, [kind |-> "article", found |-> TRUE, idx |-> Top(t).idx,
                d |-> ret[t]])
  /\ UNCHANGED <<store, pos, failed, namespaces, cur, calls>>

(***************************************************************************)
(* readData(off, count): readDataNolock(off, count) under the mutex.       *)
(***************************************************************************)
readData_lock(t) ==
  /\ Running(t, "readData", "lock")
  /\ mutex = 0
  /\ mutex' = t
  /\ Invoke(t, [Top(t) EXCEPT !.pc = "unlock"],
            F_readDataNolockAt(Top(t).off, Top(t).count))
  /\ UNCHANGED <<store, pos, failed, namespaces, cur, calls>>

readData_unlock(t) ==
  /\ Running(t, "readData", "unlock")
  /\ mutex' = 0
  /\ Return(t, ret[t])
  /\ UNCHANGED <<store, pos, failed, namespaces, cur, calls>>

(***************************************************************************)
(* getNamespaceBeginOffset(ch): entry 0 is read first (d); the loop probes *)
(* m = lower + (upper - lower) / 2 and moves upper to m when the probe's   *)
(* namespace is >= ch, else lower; the result is upper when entry 0's      *)
(* namespace is < ch, else lower.                                          *)
(***************************************************************************)
BeginMovesUpper(dns, ch) == dns >= ch
\* As BeginResult, were the test of entry 0 left out.
BeginResultLower(d0, ch, lower, upper) == lower
BeginResult(d0, ch, lower, upper) == IF d0 < ch THEN upper ELSE lower

getNamespaceBeginOffset(t) ==
  /\ stack[t] # <<>>
  /\ Top(t).proc = "getNamespaceBeginOffset"
  /\ LET f == Top(t)
         up == f.pc = "probed" /\ BeginMovesUpper(ret[t].ns, f.ch)
         lower == IF f.pc = "probed" /\ ~up THEN f.m ELSE f.lower
         upper == IF up THEN f.m ELSE f.upper
         d0 == IF f.pc = "first" THEN ret[t].ns ELSE f.d0
         m == lower + (upper - lower) \div 2
     IN IF upper - lower > 1
          THEN Invoke(t, [f EXCEPT !.pc = "probed", !.lower = lower,
                                   !.upper = upper, !.m = m, !.d0 = d0],
                      F_getDirent(m))
          ELSE Return(t, [kind |-> "index",
                          i |-> BeginResult(d0, f.ch, lower, upper)])
  /\ UNCHANGED <<store, pos, failed, mutex, namespaces, cur, calls>>

(***************************************************************************)
(* getNamespaceEndOffset(ch): the loop moves upper to m when the probe's   *)
(* namespace is > ch, else lower; the result is upper.                     *)
(***************************************************************************)
\* As EndMovesUpper, were upper moved at every probe.
EndMovesUpperAlways(dns, ch) == TRUE
\* As EndMovesUpper, were the comparison >= as in the begin search.
EndMovesUpperAtOrAbove(dns, ch) == dns >= ch
EndMovesUpper(dns, ch) == dns > ch

getNamespaceEndOffset(t) ==
  /\ stack[t] # <<>>
  /\ Top(t).proc = "getNamespaceEndOffset"
  /\ LET f == Top(t)
         up == f.pc = "probed" /\ EndMovesUpper(ret[t].ns, f.ch)
         lower == IF f.pc = "probed" /\ ~up THEN f.m ELSE f.lower
         upper == IF up THEN f.m ELSE f.upper
         m == lower + (upper - lower) \div 2
     IN IF upper - lower > 1
          THEN Invoke(t, [f EXCEPT !.pc = "probed", !.lower = lower,
                                   !.upper = upper, !.m = m],
                      F_getDirent(m))
          ELSE Return(t, [kind |-> "index", i |-> upper])
  /\ UNCHANGED <<store, pos, failed, mutex, namespaces, cur, calls>>

(***************************************************************************)
(* getNamespaces(): when the cache is empty, the namespace of entry 0 is   *)
(* assigned to it, and while getNamespaceEndOffset of the last namespace   *)
(* (idx; -1 before its first assignment) is below the article count, the   *)
(* namespace of the entry there is appended; the cache is returned.  No step holds the mutex: the cache is *)
(* tested, assigned, appended to and copied as the threads' steps          *)
(* interleave.                                                             *)
(***************************************************************************)
CacheIsEmpty == namespaces = <<>>

getNamespaces_empty(t) ==
  /\ Running(t, "getNamespaces", "empty")
  /\ IF CacheIsEmpty
       THEN Invoke(t, [Top(t) EXCEPT !.pc = "assign"], F_getDirent(0))
       ELSE Goto(t, [Top(t) EXCEPT !.pc = "return"])
  /\ UNCHANGED <<store, pos, failed, mutex, namespaces, cur, calls>>

getNamespaces_assign(t) ==
  /\ Running(t, "getNamespaces", "assign")
  /\ namespaces' = <<ret[t].ns>>
  /\ Invoke(t, [Top(t) EXCEPT !.pc = "idx"],
            F_getNamespaceEndOffset(ret[t].ns))
  /\ UNCHANGED <<store, pos, failed, mutex, cur, calls>>

getNamespaces_idx(t) ==
  /\ Running(t, "getNamespaces", "idx")
  /\ IF ret[t].i < getCountArticles
       THEN Invoke(t, [Top(t) EXCEPT !.pc = "append", !.idx = ret[t].i],
                   F_getDirent(ret[t].i))
       ELSE Goto(t, [Top(t) EXCEPT !.pc = "return", !.idx = ret[t].i])
  /\ UNCHANGED <<store, pos, failed, mutex, namespaces, cur, calls>>

getNamespaces_append(t) ==
  /\ Running(t, "getNamespaces", "append")
  /\ namespaces' = Append(namespaces, ret[t].ns)
  /\ Invoke(t, [Top(t) EXCEPT !.pc = "idx"],
            F_getNamespaceEndOffset(ret[t].ns))
  /\ UNCHANGED <<store, pos, failed, mutex, cur, calls>>

getNamespaces_return(t) ==
  /\ Running(t, "getNamespaces", "return")
  /\ Return(t, [kind |-> "string", s |-> namespaces])
  /\ UNCHANGED <<store, pos, failed, mutex, namespaces, cur, calls>>

(***************************************************************************)
(* findArticle(ns, title, collate).                                        *)
(***************************************************************************)
\* std::string::find(ns) == npos
NamespaceMissing(ns, s) == \A i \in 1..Len(s) : s[i] # ns

titleCompare(collate, title, dtitle) ==
  IF collate THEN compareCollate(title, dtitle) ELSE compare(title, dtitle)

\* The loop's three-way comparison of the key with the probed entry d.
LoopCompare(ns, title, collate, d) ==
  IF ns < d.ns THEN -1
  ELSE IF ns > d.ns THEN 1
  ELSE titleCompare(collate, title, d.title)

\* The comparison of the key with the last candidate, entry l.
LastCompare(ns, title, collate, d) == titleCompare(collate, title, d.title)

NotFoundIndex(l, u) == u

\* As findArticle_probe, were the entries read through getDirent, which
\* locks the mutex.
findArticle_probe_locking(t, f, l, u) ==
  LET p == l + (u - l) \div 2
  IN IF u - l > 1
       THEN Invoke(t, [f EXCEPT !.pc = "probed", !.l = l, !.u = u, !.p = p],
                   F_getDirent(p))
       ELSE Invoke(t, [f EXCEPT !.pc = "last", !.l = l, !.u = u],
                   F_getDirent(l))

\* As findArticle_probe, were the probe the lower bound instead of the
\* midpoint.
findArticle_probe_low(t, f, l, u) ==
  LET p == l
  IN IF u - l > 1
       THEN Invoke(t, [f EXCEPT !.pc = "probed", !.l = l, !.u = u, !.p = p],
                   F_readDirentNolock(At(indexOffsets, p)))
       ELSE Invoke(t, [f EXCEPT !.pc = "last", !.l = l, !.u = u],
                   F_readDirentNolock(At(indexOffsets, l)))

\* The next probe of the search over (l, u): the midpoint while u - l > 1,
\* then the last candidate l.
findArticle_probe(t, f, l, u) ==
  LET p == l + (u - l) \div 2
  IN IF u - l > 1
       THEN Invoke(t, [f EXCEPT !.pc = "probed", !.l = l, !.u = u, !.p = p],
                   F_readDirentNolock(At(indexOffsets, p)))
       ELSE Invoke(t, [f EXCEPT !.pc = "last", !.l = l, !.u = u],
                   F_readDirentNolock(At(indexOffsets, l)))

Found(i) == [kind |-> "pair", found |-> TRUE, index |-> i]
NotFound(i) == [kind |-> "pair", found |-> FALSE, index |-> i]

\* The namespace test on what getNamespaces() returned, then the lock.
findArticle_find(t) ==
  /\ Running(t, "findArticle", "find")
  /\ IF NamespaceMissing(Top(t).ns, ret[t].s)
       THEN /\ Return(t, NotFound(0))
            /\ UNCHANGED mutex
       ELSE /\ mutex = 0
            /\ mutex' = t
            /\ findArticle_probe(t, Top(t), 0, getCountArticles)
  /\ UNCHANGED <<store, pos, failed, namespaces, cur, calls>>

findArticle_probed(t) ==
  /\ Running(t, "findArticle", "probed")
  /\ LET f == Top(t)
         c == LoopCompare(f.ns, f.title, f.collate, ret[t])
     IN IF c < 0
          THEN findArticle_probe(t, f, f.l, f.p) /\ UNCHANGED mutex
        ELSE IF c > 0
          THEN findArticle_probe(t, f, f.p, f.u) /\ UNCHANGED mutex
        ELSE Return(t, Found(f.p)) /\ mutex' = 0
  /\ UNCHANGED <<store, pos, failed, namespaces, cur, calls>>

findArticle_last(t) ==
  /\ Running(t, "findArticle", "last")
  /\ LET f == Top(t)
         c == LastCompare(f.ns, f.title, f.collate, ret[t])
     IN IF c = 0
          THEN Return(t, Found(f.l))
          ELSE Return(t, NotFound(NotFoundIndex(f.l, f.u)))
  /\ mutex' = 0
  /\ UNCHANGED <<store, pos, failed, namespaces, cur, calls>>

(***************************************************************************)
(* getArticle(ns, url, collate): findArticle, then the entry found is read *)
(* by readDirentNolock with the mutex not held.                            *)
(***************************************************************************)
getArticleByTitle_found(t) ==
  /\ Running(t, "getArticleByTitle", "found")
  /\ IF ~ret[t].found
       THEN Return(t, [kind |-> "article", found |-> FALSE, idx |-> 0,
                       d |-> NoRet])
       ELSE Invoke(t, [Top(t) EXCEPT !.pc = "read", !.idx = ret[t].index],
                   F_readDirentNolock(At(indexOffsets, ret[t].index)))
  /\ UNCHANGED <<store, pos, failed, mutex, namespaces, cur, calls>>

getArticleByTitle_read(t) ==
  /\ Running(t, "getArticleByTitle", "read")
  /\ Return(t, [kind |-> "article", found |-> TRUE, idx |-> Top(t).idx,
                d |-> ret[t]])
  /\ UNCHANGED <<store, pos, failed, mutex, namespaces, cur, calls>>

(***************************************************************************)
(* The public calls a thread makes, one after the other.                   *)
(***************************************************************************)
PublicCall(op, ns, title, collate, idx, off, count) ==
  [op |-> op, ns |-> ns, title |-> title, collate |-> collate,
   idx |-> idx, off |-> off, count |-> count]

Calls(titles, collates, idxs) ==
  {PublicCall(op, ns, title, collate, 0, 0, 0) :
     op \in {"findArticle", "getArticleByTitle"},
     ns \in Namespaces, title \in titles, collate \in collates}
  \cup {PublicCall(op, 0, 0, FALSE, idx, 0, 0) :
          op \in {"getArticle", "getDirent"}, idx \in idxs}
  \cup {PublicCall(op, ch, 0, FALSE, 0, 0, 0) :
          op \in {"getNamespaceBeginOffset", "getNamespaceEndOffset"},
          ch \in Namespaces}
  \cup {PublicCall("getNamespaces", 0, 0, FALSE, 0, 0, 0)}
  \cup {PublicCall("readData", 0, 0, FALSE, 0, hdr.indexPos, count) :
          count \in {0, DirentHeaderSize}}

\* A thread that runs alone makes any call; threads that share the archive
\* ask for the titles 0 and 1, compared byte-exactly, and the indices
\* 0..MaxShared.
Alone == \E t \in Threads : quota[t] = 0
PublicCalls ==
  IF Alone THEN Calls(Titles, BOOLEAN, 0..MaxLen)
           ELSE Calls(0..1, {FALSE}, 0..MaxShared)
FindCalls == {c \in PublicCalls : c.op = "findArticle"}

Frames(c) ==
  CASE c.op = "findArticle" -> F_findArticle(c.ns, c.title, c.collate)
    [] c.op = "getArticleByTitle" ->
         F_getArticleByTitle(c.ns, c.title, c.collate)
    [] c.op = "getArticle" -> F_getArticle(c.idx)
    [] c.op = "getDirent" -> F_getDirent(c.idx)
    [] c.op = "getNamespaceBeginOffset" -> F_getNamespaceBeginOffset(c.ns)
    [] c.op = "getNamespaceEndOffset" -> F_getNamespaceEndOffset(c.ns)
    [] c.op = "getNamespaces" -> F_getNamespaces
    [] c.op = "readData" -> F_readData(c.off, c.count)

MayCall(t) ==
  /\ openStatus = "ok"
  /\ status[t] # "running"
  /\ calls[t] < quota[t]

Enter(t, c) ==
  /\ stack' = [stack EXCEPT ![t] = Frames(c)]
  /\ status' = [status EXCEPT ![t] = "running"]
  /\ ret' = [ret EXCEPT ![t] = NoRet]
  /\ cur' = [cur EXCEPT ![t] = c]
  /\ calls' = [calls EXCEPT ![t] = @ + 1]
  /\ UNCHANGED <<store, pos, failed, mutex, namespaces>>

Call(t) == MayCall(t) /\ \E c \in PublicCalls : Enter(t, c)
CallFind(t) == MayCall(t) /\ \E c \in FindCalls : Enter(t, c)

(***************************************************************************)
(* The constructor, on a closed byte store.                                *)
(***************************************************************************)
Open ==
  /\ openStatus = "closed"
  /\ \E o \in FileImpl(hdr) :
       /\ openStatus' = o.status
       /\ indexOffsets' = o.indexOffsets
       /\ pos' = o.pos
       /\ failed' = o.failed
  /\ UNCHANGED <<hdr, dir, missing, quota, mutex, namespaces, stack, ret,
                 status, cur, calls>>

(***************************************************************************)
(* Initial states.                                                         *)
(***************************************************************************)
Idle ==
  /\ mutex = 0
  /\ namespaces = <<>>
  /\ stack = [t \in Threads |-> <<>>]
  /\ ret = [t \in Threads |-> NoRet]
  /\ status = [t \in Threads |-> "idle"]
  /\ cur = [t \in Threads |-> NoCall]
  /\ calls = [t \in Threads |-> 0]

\* The state after the constructor has opened the store of a sorted archive;
\* the store is whole (Opened) or lacks some of its last entry's bytes.
Cuts(d) ==
  IF d = <<>> THEN {0}
  ELSE LET n == TitleLen(d[Len(d)].title)
       IN {0, 1, n, n + 1, DirentHeaderSize + n}
Loaded(dirs, ws) ==
  /\ dir \in dirs
  /\ hdr = HeaderOf(dir)
  /\ \E o \in FileImpl(hdr) :
       /\ o.status = "ok"
       /\ openStatus = o.status
       /\ indexOffsets = o.indexOffsets
       /\ pos = o.pos
       /\ failed = o.failed
  /\ quota = ws
  /\ Idle
Opened(dirs, ws) == Loaded(dirs, ws) /\ missing = 0

\* The archives threads share: up to MaxShared entries, all of title 1.
SharedDirs ==
  {d \in SortedDirs :
     Len(d) <= MaxShared /\ \A i \in 1..Len(d) : d[i].title = 1}

Init == Opened(SharedDirs, [t \in Threads |-> 1])
InitSingle == Opened(SortedDirs, [t \in Threads |-> IF t = 1 THEN MaxCalls ELSE 0])
InitTruncated ==
  /\ Loaded(SortedDirs, [t \in Threads |-> IF t = 1 THEN MaxCalls ELSE 0])
  /\ missing \in Cuts(dir)
\* A closed store that holds a sorted archive's entries and, in its pointer
\* table, pointers to them in any order, with repetitions.
StoreHeaders(d) ==
  {[HeaderOf(d) EXCEPT !.words = w] :
     w \in [1..Len(d) -> {PointersOf(d)[i] : i \in 1..Len(d)}]}
InitStore ==
  /\ dir \in SortedDirs
  /\ hdr \in StoreHeaders(dir)
  /\ missing = 0
  /\ openStatus = "closed"
  /\ indexOffsets = <<>>
  /\ pos = 0
  /\ failed = FALSE
  /\ quota = [t \in Threads |-> IF t = 1 THEN 1 ELSE 0]
  /\ Idle
InitOpen ==
  /\ hdr \in Headers
  /\ dir = <<>>
  /\ missing = 0
  /\ openStatus = "closed"
  /\ indexOffsets = <<>>
  /\ pos = 0
  /\ failed = FALSE
  /\ quota = [t \in Threads |-> 0]
  /\ Idle

(***************************************************************************)
(* Next-state relations and specifications.                                *)
(***************************************************************************)
Reader(t) ==
  \/ readDirentNolock_seekg(t)
  \/ readDirentNolock_header(t)
  \/ readDirentNolock_setExtra(t)
  \/ readDataNolock(t)

Lookup(t) ==
  \/ getDirent_lock(t)
  \/ getDirent_unlock(t)
  \/ getNamespaceEndOffset(t)
  \/ getNamespaces_empty(t)
  \/ getNamespaces_assign(t)
  \/ getNamespaces_idx(t)
  \/ getNamespaces_append(t)
  \/ getNamespaces_return(t)
  \/ findArticle_find(t)
  \/ findArticle_probed(t)
  \/ findArticle_last(t)

Others(t) ==
  \/ getArticleByTitle_found(t)
  \/ getArticleByTitle_read(t)
  \/ getArticle_lock(t)
  \/ getArticle_unlock(t)
  \/ getNamespaceBeginOffset(t)
  \/ readData_lock(t)
  \/ readData_unlock(t)
  \/ readDataNolockAt(t)

Next == \E t \in Threads : Call(t) \/ Reader(t) \/ Lookup(t) \/ Others(t)
NextFind == \E t \in Threads : CallFind(t) \/ Reader(t) \/ Lookup(t)
NextOpen == Open

\* Threads calling any public operation of an opened archive.
Spec == Init /\ [][Next]_vars
\* One thread calling the public operations.
SpecSingle == InitSingle /\ [][Next]_vars
\* The constructor on a store, then one thread calling a public operation.
NextStore == Open \/ Next
SpecStore == InitStore /\ [][NextStore]_vars
\* One thread calling the public operations on a store that may be cut
\* short.
SpecTruncated == InitTruncated /\ [][Next]_vars
\* Threads calling only findArticle.
SpecFind == Init /\ [][NextFind]_vars
\* The constructor on a byte store.
SpecOpen == InitOpen /\ [][NextOpen]_vars

\* Threads calling only the index-based accessors getArticle(idx) and
\* getDirent(idx).
IndexCalls == {c \in PublicCalls : c.op \in {"getArticle", "getDirent"}}
CallIndex(t) == MayCall(t) /\ \E c \in IndexCalls : Enter(t, c)
Indexed(t) ==
  \/ getDirent_lock(t)
  \/ getDirent_unlock(t)
  \/ getArticle_lock(t)
  \/ getArticle_unlock(t)
NextIndex == \E t \in Threads : CallIndex(t) \/ Reader(t) \/ Indexed(t)
SpecIndex == Init /\ [][NextIndex]_vars

\* Threads calling the lookups findArticle, getNamespaceBeginOffset,
\* getNamespaceEndOffset and getNamespaces on an empty archive or on one of
\* MaxLen entries whose titles are 1, 2, ... within each namespace, each
\* thread scheduled fairly: a thread that can take a step (it is not waiting
\* for a mutex another thread holds) takes one.
LookupDirs ==
  {d \in SortedDirs :
     /\ Len(d) \in {0, MaxLen}
     /\ \A i \in 1..Len(d) :
          d[i].title = 1 + Cardinality({j \in 1..(i - 1) : d[j].ns = d[i].ns})}
LookupCalls ==
  {c \in PublicCalls :
     c.op \in {"findArticle", "getNamespaceBeginOffset",
               "getNamespaceEndOffset", "getNamespaces"}}
CallLookup(t) == MayCall(t) /\ \E c \in LookupCalls : Enter(t, c)
Step(t) == Reader(t) \/ Lookup(t) \/ getNamespaceBeginOffset(t)
NextLookup == \E t \in Threads : CallLookup(t) \/ Step(t)
InitLookup == Opened(LookupDirs, [t \in Threads |-> 1])
SpecLookup ==
  InitLookup /\ [][NextLookup]_vars /\ \A t \in Threads : WF_vars(Step(t))

(***************************************************************************)
(* What the claims speak of.                                               *)
(***************************************************************************)
Returned(t, op) == status[t] = "returned" /\ cur[t].op = op
Raised(t, op) == status[t] = "raised" /\ cur[t].op = op
EntryOf(i) == dir[i + 1]
Indices == 0..(Len(dir) - 1)

\* Entry e has the key of call c: the same namespace, and a title that the
\* comparison mode of the call finds equal.
KeyMatches(c, e) ==
  e.ns = c.ns /\ titleCompare(c.collate, c.title, e.title) = 0
NamespacePresent(ns) == \E i \in Indices : EntryOf(i).ns = ns

\* The number of entries whose key is strictly less than the key of call c:
\* the smallest index whose key is strictly greater when c's key is absent.
InsertionPoint(c) ==
  Cardinality({i \in Indices :
                 KeyLess(EntryOf(i), [ns |-> c.ns, title |-> c.title])})

\* The namespaces of the directory, each once, in order of first occurrence.
RunNamespaces ==
  LET F[i \in 0..Len(dir)] ==
        IF i = 0 THEN <<>>
        ELSE IF \E j \in 1..(i - 1) : dir[j].ns = dir[i].ns THEN F[i - 1]
        ELSE Append(F[i - 1], dir[i].ns)
  IN F[Len(dir)]
IsPrefix(s, r) == Len(s) <= Len(r) /\ \A i \in 1..Len(s) : s[i] = r[i]

\* C1: on a non-empty sorted archive, findArticle returns Found(i) exactly
\* when entry i has the namespace and the title of the key (equal in the
\* comparison mode asked for): a Found(i) names an entry with the key, and a
\* key some entry has is found.
C1_FoundIffKeyAtIndex ==
  \A t \in Threads :
    Returned(t, "findArticle") /\ Len(dir) > 0 =>
      /\ ret[t].found =>
           ret[t].index \in Indices
             /\ KeyMatches(cur[t], EntryOf(ret[t].index))
      /\ (\E i \in Indices : KeyMatches(cur[t], EntryOf(i))) => ret[t].found

\* C2: when the namespace of the key is present and no entry has the key,
\* findArticle returns NotFound(u) with u the smallest index whose key is
\* strictly greater than the key (the article count if there is none).
C2_NotFoundAtInsertionPoint ==
  \A t \in Threads :
    (/\ Returned(t, "findArticle")
     /\ NamespacePresent(cur[t].ns)
     /\ ~\E i \in Indices : KeyMatches(cur[t], EntryOf(i)))
    => ret[t] = NotFound(InsertionPoint(cur[t]))

\* C3: with threads calling findArticle concurrently, every directory entry
\* a thread decodes comes whole from the offset that thread seeked to: its
\* header was read at that offset and its extra blob right behind it.
Whole(d) ==
  /\ d.hdrFrom = d.at
  /\ d.extraLen > 0 => d.extraFrom = d.at + DirentHeaderSize
C3_NoTornRead ==
  \A t \in Threads :
    /\ ret[t].kind = "dirent" => Whole(ret[t])
    /\ Running(t, "readDirentNolock", "setExtra") =>
         Top(t).hdrFrom = Top(t).off
\* C3's case: a thread has decoded an entry with an extra blob while the
\* other thread, in a findArticle of its own, waits for the mutex.
C3_Witness ==
  \E t, o \in Threads :
    /\ t # o
    /\ ret[t].kind = "dirent" /\ ret[t].extraLen > 0 /\ mutex = t
    /\ stack[o] # <<>>
    /\ Top(o).pc \in {"lock", "find"}
    /\ calls[o] > 0 /\ calls[t] > 0

\* C4: a thread that is in a seek+read sequence on the file handle holds the
\* archive mutex, whichever public operation it runs.
InSeekRead(t) ==
  /\ stack[t] # <<>>
  /\ Top(t).proc \in {"readDirentNolock", "readDataNolock",
                      "readDataNolockAt"}
C4_SeekReadUnderMutex ==
  \A t \in Threads : InSeekRead(t) => mutex = t

\* C5: every value getNamespaces() returns is the complete namespace string
\* of the archive, and no findArticle call reports NotFound for a key an
\* entry has.
C5_CacheNeverPartial ==
  \A t \in Threads :
    /\ ret[t].kind = "string" => ret[t].s = RunNamespaces
    /\ (/\ Returned(t, "findArticle")
        /\ \E i \in Indices : KeyMatches(cur[t], EntryOf(i)))
       => ret[t].found

\* C6: on a non-empty sorted archive a single thread's getNamespaces()
\* returns each namespace present exactly once, in ascending order of first
\* occurrence, in the first call and in every later one; the cache holds a
\* prefix of that string while it is filled and never changes once a call
\* has returned it.
C6_NamespacesOnceAscending ==
  /\ IsPrefix(namespaces, RunNamespaces)
  /\ \A t \in Threads :
       /\ ret[t].kind = "string" => ret[t].s = RunNamespaces
       /\ Returned(t, "getNamespaces") =>
            ret[t].s = namespaces /\ namespaces = RunNamespaces
\* C6's case: a second getNamespaces() call of the thread has returned, on
\* an archive with two namespaces.
C6_Witness ==
  \E t \in Threads :
    /\ Returned(t, "getNamespaces")
    /\ calls[t] = 2
    /\ Len(ret[t].s) = 2
    /\ Len(dir) = MaxLen

\* C7: for a namespace ch present in a non-empty sorted archive,
\* getNamespaceBeginOffset(ch) is the first index with namespace ch and
\* getNamespaceEndOffset(ch) is one past the last: every index in
\* [begin, end) has namespace ch and no index outside has.
C7_BeginEndPartition ==
  \A t \in Threads :
    /\ (Returned(t, "getNamespaceBeginOffset")
          /\ NamespacePresent(cur[t].ns)) =>
         \A i \in Indices :
           (i < ret[t].i => EntryOf(i).ns < cur[t].ns)
             /\ (i >= ret[t].i => EntryOf(i).ns >= cur[t].ns)
    /\ (Returned(t, "getNamespaceEndOffset")
          /\ NamespacePresent(cur[t].ns)) =>
         \A i \in Indices :
           (i < ret[t].i => EntryOf(i).ns <= cur[t].ns)
             /\ (i >= ret[t].i => EntryOf(i).ns > cur[t].ns)
\* C7's case: the begin offset of the second namespace of a full archive
\* has been returned, and it is neither 0 nor the article count.
C7_Witness ==
  \E t \in Threads :
    /\ Returned(t, "getNamespaceBeginOffset")
    /\ NamespacePresent(cur[t].ns)
    /\ ret[t].i > 0 /\ ret[t].i < Len(dir) - 1
\* C8: on a byte store that holds a full header, the constructor succeeds
\* exactly when the magic is 1439867043 and the version is 3; otherwise it
\* fails with a format error and builds no index.
C8_OpenIffMagicAndVersion ==
  (openStatus # "closed" /\ hdr.hasHeader) =>
    IF hdr.magic = Magic /\ hdr.version = Version
      THEN openStatus = "ok"
      ELSE openStatus = "FormatError" /\ indexOffsets = <<>>

\* C9: after a successful open, indexOffsets has as many elements as the
\* header's article count, whatever the index-pointer-table length says.
C9_OffsetTableLength ==
  openStatus = "ok" => Len(indexOffsets) = hdr.count
\* C9's case: an open has succeeded on a header whose pointer-table length
\* is not 4 * count.
C9_Witness ==
  /\ openStatus = "ok"
  /\ hdr.count > 0
  /\ hdr.indexPtrLen # WordSize * hdr.count
  /\ Len(hdr.words) > hdr.count

\* C10: on an opened archive whose stream has not failed, findArticle
\* returns Found or NotFound and never raises, whatever the article count.
C10_FindNeverRaises ==
  \A t \in Threads : ~(Raised(t, "findArticle") /\ ~failed)

\* The entry d was decoded whole at indexOffsets[i] and is entry i of the
\* directory.
EntryAt(d, i) ==
  /\ d.kind = "dirent"
  /\ d.at = At(indexOffsets, i)
  /\ Whole(d)
  /\ d.ns = EntryOf(i).ns
  /\ d.title = EntryOf(i).title
OutOfRangeError == [kind |-> "error", what |-> "article index out of range"]
ByIndex(t) == cur[t].op \in {"getArticle", "getDirent"}

\* C11: getArticle(idx) and getDirent(idx) with idx >= article count raise
\* the out-of-range error, and only then; the raising step is the call's
\* first, is taken without the mutex whoever holds it, and leaves the file
\* cursor, the stream state, indexOffsets and the namespace cache as they
\* were.  With idx < article count they return entry idx, decoded whole at
\* indexOffsets[idx].
C11_Results ==
  \A t \in Threads :
    ByIndex(t) =>
      /\ status[t] = "raised" =>
           ret[t] = OutOfRangeError /\ cur[t].idx >= getCountArticles
      /\ Returned(t, "getDirent") =>
           cur[t].idx < getCountArticles /\ EntryAt(ret[t], cur[t].idx)
      /\ Returned(t, "getArticle") =>
           /\ cur[t].idx < getCountArticles
           /\ ret[t].idx = cur[t].idx
           /\ EntryAt(ret[t].d, cur[t].idx)
C11_RaiseStep ==
  \A t \in Threads :
    (ByIndex(t) /\ status[t] = "running" /\ status'[t] = "raised") =>
      /\ Len(stack[t]) = 1 /\ Top(t).pc = "lock"
      /\ mutex # t
      /\ UNCHANGED <<pos, failed, mutex, indexOffsets, namespaces>>
C11_RangeCheckFirst == []C11_Results /\ [][C11_RaiseStep]_vars
\* C11's case: an index-based accessor has raised the out-of-range error
\* while the other thread holds the mutex and is reading an entry.
C11_Witness ==
  \E t, o \in Threads :
    /\ t # o
    /\ ByIndex(t) /\ status[t] = "raised" /\ ret[t] = OutOfRangeError
    /\ mutex = o /\ InSeekRead(o)

\* C12: when the byte store holds fewer pointer words at the index-pointer
\* position than the article count, the constructor fails with a format
\* error; an opened archive has no element of indexOffsets that was not read
\* from the store.
C12_TruncatedTableFailsOpen ==
  /\ (/\ openStatus # "closed"
      /\ hdr.hasHeader /\ hdr.magic = Magic /\ hdr.version = Version
      /\ Len(hdr.words) < hdr.count)
     => openStatus = "FormatError"
  /\ openStatus = "ok" => Len(indexOffsets) <= WordsRead(hdr)

\* Thread t is in the search of a findArticle call: past the lock of line
\* 116, between its first probe and its return.
InSearch(t) ==
  \E k \in 1..Len(stack[t]) :
    stack[t][k].proc = "findArticle" /\ stack[t][k].pc \in {"probed", "last"}

\* C13: a thread in the search of a findArticle call holds the mutex from
\* its first probe to its return, and while it is there no other thread
\* takes a step of a seek or a read on the file handle.
C13_MutexHeld == \A t \in Threads : InSearch(t) => mutex = t
C13_NoForeignSeekRead ==
  \A t, o \in Threads :
    (t # o /\ InSearch(t) /\ InSeekRead(o)) => stack'[o] = stack[o]
C13_SearchUnderOneLock == []C13_MutexHeld /\ [][C13_NoForeignSeekRead]_vars

\* The frames of thread t that have constructed a MutexLock and not yet
\* destroyed it.
LockFrames(t) ==
  {k \in 1..Len(stack[t]) :
     \/ stack[t][k].proc \in {"getDirent", "getArticle", "readData"}
          /\ stack[t][k].pc = "unlock"
     \/ stack[t][k].proc = "findArticle"
          /\ stack[t][k].pc \in {"probed", "last"}}
\* Thread t is about to construct a MutexLock.
AtLock(t) ==
  \/ Running(t, "getDirent", "lock")
  \/ Running(t, "getArticle", "lock")
  \/ Running(t, "readData", "lock")
  \/ Running(t, "findArticle", "find")

\* C14: in every interleaving of threads calling the public operations, a
\* thread that is about to lock the mutex does not hold it, and a thread
\* holds the mutex exactly when one frame of its stack has locked it: no
\* thread waits for a mutex it holds itself.
C14_NoSelfDeadlock ==
  \A t \in Threads :
    /\ AtLock(t) => mutex # t
    /\ mutex = t <=> Cardinality(LockFrames(t)) = 1
    /\ Cardinality(LockFrames(t)) <= 1
\* C14's case: a thread reads an entry under the lock of its findArticle
\* search while the other thread, in the getNamespaces() of its own
\* findArticle, waits for the mutex in getDirent.
C14_Witness ==
  \E t, o \in Threads :
    /\ t # o
    /\ InSearch(t) /\ InSeekRead(t) /\ mutex = t
    /\ Running(o, "getDirent", "lock") /\ Len(stack[o]) > 2
    /\ stack[o][1].proc = "findArticle"

\* C15: on a sorted archive, with the threads scheduled fairly, every call
\* of findArticle, getNamespaceBeginOffset, getNamespaceEndOffset and
\* getNamespaces returns or raises; from one probe of a binary search to the
\* next the width of its bounds strictly decreases, and the index
\* getNamespaces() gets from getNamespaceEndOffset is above the index of the
\* entry it read last.
C15_Terminates ==
  \A t \in Threads :
    (status[t] = "running") ~> (status[t] \in {"returned", "raised"})
C15_Progress ==
  \A t \in Threads :
    (stack[t] # <<>> /\ Len(stack'[t]) >= Len(stack[t])) =>
      LET f == stack[t][Len(stack[t])]
          g == stack'[t][Len(stack[t])]
      IN /\ (/\ f.proc \in {"getNamespaceBeginOffset",
                             "getNamespaceEndOffset"}
             /\ f.pc = "probed" /\ g # f)
            => /\ g.upper - g.lower < f.upper - f.lower
               /\ g.lower < g.m /\ g.m < g.upper
         /\ (f.proc = "findArticle" /\ f.pc = "probed" /\ g # f)
            => g.u - g.l < f.u - f.l
         /\ (f.proc = "getNamespaces" /\ f.pc = "idx" /\ g # f)
            => g.idx > f.idx /\ g.idx > 0
C15_LookupsTerminate == C15_Terminates /\ [][C15_Progress]_vars
\* C15's case: on an archive of MaxLen entries in two namespaces both
\* threads' lookups have ended, one of them a getNamespaces() that went
\* twice through its loop.
C15_Witness ==
  \E t, o \in Threads :
    /\ t # o
    /\ Returned(t, "getNamespaces") /\ Len(ret[t].s) >= 2
    /\ status[o] \in {"returned", "raised"}
    /\ Len(dir) = MaxLen

\* C16: a findArticle call whose namespace no entry of the archive has
\* returns NotFound(0), and never enters the search: it does not lock the
\* mutex of line 116 and probes no entry.
C16_MissingNamespaceShortCircuit ==
  \A t \in Threads :
    (cur[t].op = "findArticle" /\ ~NamespacePresent(cur[t].ns)) =>
      /\ ~InSearch(t)
      /\ status[t] # "running" =>
           status[t] = "returned" /\ ret[t] = NotFound(0)

\* C17: every index that subscripts indexOffsets is below the article
\* count.  In a findArticle search 0 <= l < u <= count, every probe p has
\* l < p < u and the last candidate is l; in the namespace searches every
\* probe m has lower < m < upper <= count; an index getDirent or
\* getArticle was given has passed the range check when it is used; every
\* offset a directory entry is read at is an element of indexOffsets.
InRange(i) == 0 <= i /\ i < getCountArticles
C17_FrameInRange(f) ==
  /\ (f.proc = "findArticle" /\ f.pc = "probed") =>
       0 <= f.l /\ f.l < f.p /\ f.p < f.u /\ f.u <= getCountArticles
  /\ (f.proc = "findArticle" /\ f.pc = "last") =>
       0 <= f.l /\ f.l < f.u /\ f.u <= getCountArticles
  /\ (f.proc \in {"getNamespaceBeginOffset", "getNamespaceEndOffset"}
        /\ f.pc = "probed") =>
       /\ 0 <= f.lower /\ f.lower < f.m
       /\ f.m < f.upper /\ f.upper <= getCountArticles
  /\ (f.proc \in {"getDirent", "getArticle"} /\ f.pc = "unlock") =>
       InRange(f.idx)
  /\ (f.proc = "getArticleByTitle" /\ f.pc = "read") => InRange(f.idx)
  /\ f.proc = "readDirentNolock" =>
       \E i \in 1..Len(indexOffsets) : f.off = indexOffsets[i]
C17_IndicesInRange ==
  \A t \in Threads :
    \A k \in 1..Len(stack[t]) : C17_FrameInRange(stack[t][k])
\* C17's case: the search of a findArticle call reads its last candidate,
\* entry 0, on an archive of one entry, while the other thread's getDirent
\* has thrown on an index that is out of range.
C17_Witness ==
  \E t, o \in Threads :
    /\ t # o
    /\ getCountArticles = 1
    /\ Running(t, "readDirentNolock", "header")
    /\ stack[t][Len(stack[t]) - 1].proc = "findArticle"
    /\ stack[t][Len(stack[t]) - 1].pc = "last"
    /\ status[o] = "raised" /\ ret[o] = OutOfRangeError

\* The entry d is complete: its header came from the offset asked for, its
\* extra blob, read only when the extra length is > 0, from right behind
\* the header, and the store holds all of its bytes.
Complete(d) ==
  /\ Whole(d)
  /\ d.at + DirentHeaderSize + d.extraLen <= FileLen
  /\ IF d.extraLen > 0
       THEN d.title # GarbageTitle /\ TitleLen(d.title) = d.extraLen
       ELSE d.extraFrom = -1 /\ d.title = 0
\* Thread t's step ends its readDirentNolock by returning an entry.
ReturnsDirent(t) ==
  /\ stack[t] # <<>>
  /\ Top(t).proc = "readDirentNolock"
  /\ Len(stack'[t]) = Len(stack[t]) - 1
\* Thread t's step throws from the read of an entry's header or extra blob.
ReaderThrows(t) ==
  /\ InSeekRead(t)
  /\ stack'[t] = <<>>

\* C18: reading a directory entry raises a format error or returns a
\* complete entry.  An entry is returned only when the store holds its 26
\* header bytes and its extra blob, and then the cursor is left at offset +
\* 26 + extra length; the read raises only when the bytes asked for are not
\* all there (or the stream has failed before); the extra blob is read only
\* when the header's extra length is > 0.
C18_Entries ==
  \A t \in Threads :
    /\ ret[t].kind = "dirent" => Complete(ret[t])
    /\ \A k \in 2..Len(stack[t]) :
         (/\ stack[t][k].proc = "readDataNolock"
          /\ stack[t][k - 1].proc = "readDirentNolock")
         => /\ stack[t][k - 1].extraLen > 0
            /\ stack[t][k].count + stack[t][k].got = stack[t][k - 1].extraLen
C18_ReadStep ==
  \A t \in Threads :
    /\ ReturnsDirent(t) =>
         /\ ret'[t].kind = "dirent"
         /\ pos' = Top(t).off + DirentHeaderSize + ret'[t].extraLen
         /\ ~failed'
    /\ ReaderThrows(t) =>
         /\ status'[t] = "raised" /\ ret'[t].kind = "error"
         /\ failed'
         /\ \/ failed
            \/ Top(t).proc = "readDirentNolock"
                 /\ pos + DirentHeaderSize > FileLen
            \/ Top(t).proc = "readDataNolock"
                 /\ pos + Min(BufferSize, Top(t).count) > FileLen
C18_EntryWholeOrError == []C18_Entries /\ [][C18_ReadStep]_vars
\* C18's case: on a store that lacks the last byte of its last entry's extra
\* blob, the read of that entry has read the header and thrown from the
\* read of the blob.
C18_Witness ==
  \E t \in Threads :
    /\ missing = 1
    /\ status[t] = "raised"
    /\ ret[t] = [kind |-> "error", what |-> "format-error: error reading data"]
    /\ pos = OffsetOf(Len(dir)) + DirentHeaderSize
    /\ calls[t] = 1

\* C19: once the constructor has succeeded, indexOffsets holds, for each
\* pointer the table holds, the index position plus that pointer, in the
\* order of the table, a repeated pointer repeated; and no step of any
\* operation changes indexOffsets afterwards.
C19_TableOrder ==
  openStatus = "ok" =>
    /\ Len(indexOffsets) = hdr.count
    /\ \A i \in 1..Len(indexOffsets) :
         i <= WordsRead(hdr) => indexOffsets[i] = hdr.indexPos + hdr.words[i]
C19_WriteOnce == openStatus = "ok" => indexOffsets' = indexOffsets
C19_OffsetsAsStoredAndFixed == []C19_TableOrder /\ [][C19_WriteOnce]_vars
\* C19's case: a store whose pointer table is not ascending and repeats a
\* pointer has been opened, and a lookup on it has returned.
C19_Witness ==
  /\ openStatus = "ok"
  /\ \E i, j \in 1..Len(hdr.words) : i < j /\ hdr.words[i] > hdr.words[j]
  /\ \E i, j \in 1..Len(hdr.words) : i < j /\ hdr.words[i] = hdr.words[j]
  /\ Returned(1, "getArticleByTitle") /\ ret[1].found

====
